---- MODULE Spec2Model ----
(***************************************************************************)
(* Path selection of the pan library (pkg/pan): the three Selector         *)
(* variants of selector.go (DefaultSelector, PingingSelector with its      *)
(* probing loop, FabridSelector) and the reply-path cache of               *)
(* udp_listen.go (DefaultReplySelector, pathsMRU).                         *)
(*                                                                         *)
(* Indices are kept as in the Go code (0-based); TLA+ sequences are        *)
(* 1-based, so the Go expression s.paths[s.current] is At(paths, current). *)
(* A Go panic (index out of range, nil dereference, panic(err)) ends the   *)
(* process: it is recorded in `fault` and no operation runs afterwards.    *)
(***************************************************************************)
EXTENDS Integers, Sequences, FiniteSets, TLC

\* ------------------------------------------------------------------ bounds

\* Number of distinct path fingerprints the pool knows for the destination.
NumFingerprints == 3
\* Longest candidate list handed to Initialize / Refresh.
MaxPaths == 2
\* Cap on the probing loop's sequence number (a uint16 in the code).
MaxSeq == 2
\* Largest value tried for the reply cache's capacity
\* (defaultSelectorMaxReplyPaths, a constant defined outside these files).
MaxCapacity == 3
\* The longest interface list of a path (two interfaces per link).
MaxInterfaces == 6

\* ------------------------------------------------------------ data model

Fingerprints == 1..NumFingerprints

\* The absent path (a nil *Path).
Nil == [Fingerprint |-> 0, id |-> 0]

\* Two Path objects can carry the same fingerprint (the pool re-creates Path
\* objects on refresh, reversePathFromForwardingPath creates one per packet).
PathIds == {0, 1}
PathObjs == [Fingerprint : Fingerprints, id : PathIds]

\* Path.Metadata.Interfaces as a function of the hop sequence the fingerprint
\* stands for: path 1 is a direct path, the others cross one transit domain and
\* share its interfaces and the remote's ingress interface.
InterfacesOf(fp) ==
    IF fp = 1
    THEN << [IA |-> "local", IfID |-> 1], [IA |-> "remote", IfID |-> 1] >>
    ELSE << [IA |-> "local", IfID |-> fp], [IA |-> "transit", IfID |-> 1],
            [IA |-> "transit", IfID |-> 2], [IA |-> "remote", IfID |-> 2] >>

\* Interfaces a down notification can name: the first is on path 1 only, the
\* second on every other path, the third on no path.
DownInterfaces ==
    { [IA |-> "local", IfID |-> 1], [IA |-> "transit", IfID |-> 1],
      [IA |-> "transit", IfID |-> 9] }


NoDupFp(fs) == \A i, j \in 1..Len(fs) : i # j => fs[i] # fs[j]

RECURSIVE SeqsUpTo(_, _)
SeqsUpTo(S, n) ==
    IF n = 0 THEN { <<>> }
    ELSE LET shorter == SeqsUpTo(S, n - 1)
         IN shorter \cup { Append(s, x) : s \in { t \in shorter : Len(t) = n - 1 }, x \in S }

\* The path lists the pool and the policy filter can produce: distinct paths
\* (hence distinct fingerprints) in any order, possibly none. The pool creates
\* the Path objects of one list together (id: which refresh created them).
CandidateSets ==
    { [i \in 1..Len(fs) |-> [Fingerprint |-> fs[i], id |-> g]] :
        fs \in { t \in SeqsUpTo(Fingerprints, MaxPaths) : NoDupFp(t) }, g \in PathIds }

\* The probing selector compares paths by fingerprint only: one Path object per
\* fingerprint is enough for it.
PingFingerprints == {1, 2}
PingPathObjs == [Fingerprint : PingFingerprints, id : {0}]
PingCandidateSets == { ps \in CandidateSets : \A i \in 1..Len(ps) : ps[i] \in PingPathObjs }

\* Round-trip times a probe can measure, and PingingSelector.Timeout ("must be
\* positive"): a timed-out probe is recorded with this latency.
RTTs == {1}
Timeout == 2

\* Values of SetActive's argument.
ActiveCounts == {0, 1, MaxPaths}

\* What arrives on pinger.Replies. fp = 0: reversePathFingerprint fails.
\* An error reply is handled before its source and sequence number are read.
Replies ==
    [err : {"none"}, src : {"remote", "other", "nonIP"}, seq : 0..MaxSeq,
     fp : PingFingerprints \cup {0}, rtt : RTTs]
    \cup
    [err : {"InternalConnectivityDown"}, src : {"remote"}, seq : {0},
     fp : PingFingerprints \cup {0}, rtt : RTTs, IA : {"transit"}, Ingress : {1}, Egress : {2}]
    \cup
    [err : {"ExternalInterfaceDown"}, src : {"remote"}, seq : {0},
     fp : PingFingerprints \cup {0}, rtt : RTTs, IA : {"transit"}, Interface : {1}]
    \cup
    [err : {"other"}, src : {"remote"}, seq : {0},
     fp : PingFingerprints \cup {0}, rtt : RTTs]

\* The messages whose source is the remote. A message from another source is
\* dropped like a reply of the remote that carries no fingerprint, and leads to
\* the same state.
RemoteReplies == { r \in Replies : r.src = "remote" }

\* Reply cache: remote addresses and the (reversed) paths their packets arrive
\* on. There is always one fingerprint more than the cache can hold; the second
\* remote is reached over one path only.
Remotes == {"R1", "R2"}
ReplyFingerprints == 1..(MaxCapacity + 1)
ReplyPaths(r) ==
    IF r = "R1" THEN [Fingerprint : ReplyFingerprints, id : PathIds]
    ELSE { [Fingerprint |-> 1, id |-> 0] }

\* Path.Metadata.Interfaces of a path to another domain: the two interfaces
\* of every link it crosses, in order.
HopInterfaces == [IA : {"A", "B"}, IfID : {1, 2}]
InterfaceLists ==
    UNION { [1..n -> HopInterfaces] : n \in { m \in 2..MaxInterfaces : m % 2 = 0 } }

CandidatesFor(k) == IF k = "Pinging" THEN PingCandidateSets ELSE CandidateSets

\* What s.paths[:numActive] can yield past the end of a list that shrank.
StaleSeqs == SeqsUpTo(PingPathObjs, MaxPaths)

At(ps, i) == ps[i + 1]

FingerprintsOf(ps) == { ps[i].Fingerprint : i \in 1..Len(ps) }

Min(S) == CHOOSE x \in S : \A y \in S : x <= y

\* ------------------------------------------------------------------ state

VARIABLES
    kind,           \* which Selector implementation the connection uses
    initialized,    \* Initialize has been called (it is invoked once per Conn)
    paths,          \* s.paths
    current,        \* s.current
    fault,          \* "none", or the panic that ended the process
    dataplanePath,  \* Path.ForwardingPath.dataplanePath of every Path object
    local,          \* PingingSelector.local.IA ("zero" before Initialize)
    remote,         \* PingingSelector.remote.IA ("zero" before Initialize)
    numActive,      \* PingingSelector.numActive
    pinger,         \* PingingSelector.pinger: "nil", "open" or "closed"
    ctxDone,        \* pingerCtx has been cancelled
    loopPc,         \* run(): "none" (not started), "select", "send" (inside a tick), "exit"
    tickK,          \* run(): numActive as computed by the tick being handled
    sequenceNo,     \* run(): sequenceNo
    replyPending,   \* run(): replyPending
    pingTimeout,    \* run(): the pingTimeout timer: "off", "armed", or "fired" (event queued)
    latency,        \* latency registry: last sample per fingerprint for the remote, 0 = none
    last,           \* history: the last operation and which of its cases it took
    remotes,        \* DefaultReplySelector.remotes: remote -> remoteEntry.paths
    maxReplyPaths,  \* the value of defaultSelectorMaxReplyPaths
    recorded,       \* history: per remote, the recorded paths, most recent first,
                    \*          one (the latest) per fingerprint
    lastRecord,     \* history: which case the last Record took
    connRemote,     \* dialedConn: "local" when remote.IA = local.IA, else "remote"
    loopsStarted,   \* history: how many times ensureRunning executed "go s.run()"
    handled,        \* history: the message last taken from pinger.Replies
    wrote,          \* history: what the last Write / WriteTo did
    conn,           \* the dialed connection: "none", "open", "closed", or "failed" (the dial returned an error)
    selectorNil,    \* dialedConn.selector == nil
    subscriptions,  \* pool: how many subscribers of this connection it holds
    policy,         \* pathRefreshSubscriber.policy
    cached,         \* pool: the cached path set for the destination
    calls,          \* history: the last connection-level operation and the calls it made
    callerOp,       \* the caller's goroutine inside openPathRefreshSubscriber or setPolicy:
                    \*   the operation and its local variable paths
    poolOp,         \* the pool's goroutine inside pathRefreshSubscriber.refresh: the
                    \*   operation and the filtered set it is about to pass on
    notified,       \* history: the stats.NotifyPathDown call made for the message last handled
    ifaces,         \* Path.Metadata.Interfaces of the first candidate of FabridSelector.Initialize
    hops,           \* the per-hop policy records FabridSelector.Initialize derived from it
    received        \* history: the last ReadFromVia on the listening connection

selVars == << paths, current >>
loopVars == << loopPc, tickK, sequenceNo, replyPending, pingTimeout >>
pingVars == << local, remote, numActive, pinger, ctxDone, loopVars, latency >>
selectorVars == << kind, initialized, paths, current, fault, dataplanePath, pingVars, last >>
replyVars == << remotes, maxReplyPaths, recorded, lastRecord >>
raceVars == << callerOp, poolOp >>
subVars == << conn, selectorNil, subscriptions, policy, cached, calls, raceVars >>
histVars == << notified, ifaces, hops, received >>
connVars == << connRemote, loopsStarted, handled, wrote, subVars, histVars >>
vars == << selectorVars, replyVars, connVars >>

\* History record of the last operation: its name and which of its cases it
\* took; "other" for the operations that leave paths and current alone.
Hist(op, tag) == [op |-> op, tag |-> tag, answer |-> -1]

\* No message has been taken from pinger.Replies and nothing has been written.
NoReply == [err |-> "", src |-> "", seq |-> 0, fp |-> 0, rtt |-> 0]
NoWrite == [call |-> "", dst |-> "", asked |-> FALSE, err |-> "", sent |-> FALSE, path |-> Nil]

\* Neither goroutine is inside an operation of the subscriber.
NoOp == [op |-> "", paths |-> <<>>]

\* History: no NotifyPathDown call was made; nothing has been read.
NoNotify == [pf |-> 0, pi |-> [IA |-> "", IfID |-> 0]]
NoRead == [remote |-> "", path |-> Nil, outcome |-> ""]

\* ------------------------------------------------------- Selector.Path()

\* DefaultSelector.Path / PingingSelector.Path / FabridSelector.Path: the three
\* bodies are the same. Fingerprint -1 stands for the index-out-of-range panic.
Path ==
    IF Len(paths) = 0 THEN Nil
    ELSE IF current >= 0 /\ current < Len(paths) THEN At(paths, current)
    ELSE [Fingerprint |-> -1, id |-> -1]

\* ----------------------- collaborators (defined outside the files modelled)

\* isInterfaceOnPath: some hop of the path is the reported interface.
isInterfaceOnPath(p, pi) ==
    \E k \in 1..Len(InterfacesOf(p.Fingerprint)) : InterfacesOf(p.Fingerprint)[k] = pi

\* stats.FirstMoreAlive(p, paths): index of the first path, in order, that the
\* registry does not currently mark down, -1 if there is none. The registry is
\* shared by every connection of the process, so the marks it holds at the time
\* of a call (marked) are an input of the call.
FirstMoreAlive(marked, p, ps) ==
    LET alive == { i \in 0..(Len(ps) - 1) : At(ps, i).Fingerprint \notin marked }
    IN IF alive = {} THEN -1 ELSE Min(alive)

\* ------------------------------------------------------- DefaultSelector

DefaultSelector_Initialize(ps) ==
    /\ paths' = ps
    /\ current' = 0
    /\ UNCHANGED << fault, dataplanePath >>

\* newcurrent of Refresh: the index of the first path of ps with the current
\* fingerprint; 0 if there is none or if the selector holds no paths.
NewCurrentIn(ps) ==
    IF Len(paths) > 0
    THEN LET hits == { i \in 0..(Len(ps) - 1) :
                          At(ps, i).Fingerprint = At(paths, current).Fingerprint }
         IN IF hits = {} THEN 0 ELSE Min(hits)
    ELSE 0

\* Variant: Refresh starts over at the first path.
DefaultSelector_Refresh_first(ps) ==
    /\ paths' = ps
    /\ current' = 0
    /\ UNCHANGED << fault, dataplanePath >>

DefaultSelector_Refresh(ps) ==
    /\ paths' = ps
    /\ current' = NewCurrentIn(ps)
    /\ UNCHANGED << fault, dataplanePath >>

\* Variant: PathDown fails over without looking at what went down.
DefaultSelector_PathDown_any(pf, pi, marked) ==
    IF Len(paths) = 0
    THEN /\ fault' = "PathDown: index out of range"
         /\ UNCHANGED << paths, current, dataplanePath >>
    ELSE LET better == FirstMoreAlive(marked, At(paths, current), paths)
         IN /\ current' = IF better >= 0 THEN better ELSE current
            /\ UNCHANGED << paths, fault, dataplanePath >>

\* Variant: PathDown takes index 0 of the registry for "none".
DefaultSelector_PathDown_positive(pf, pi, marked) ==
    IF Len(paths) = 0
    THEN /\ fault' = "PathDown: index out of range"
         /\ UNCHANGED << paths, current, dataplanePath >>
    ELSE LET cur == At(paths, current)
             better == FirstMoreAlive(marked, cur, paths)
         IN /\ current' = IF (isInterfaceOnPath(cur, pi) \/ pf = cur.Fingerprint) /\ better > 0
                          THEN better
                          ELSE current
            /\ UNCHANGED << paths, fault, dataplanePath >>

\* s.paths[s.current] is evaluated first: with no paths it is out of range.
DefaultSelector_PathDown(pf, pi, marked) ==
    IF Len(paths) = 0
    THEN /\ fault' = "PathDown: index out of range"
         /\ UNCHANGED << paths, current, dataplanePath >>
    ELSE LET cur == At(paths, current)
             better == FirstMoreAlive(marked, cur, paths)
         IN /\ current' = IF (isInterfaceOnPath(cur, pi) \/ pf = cur.Fingerprint) /\ better >= 0
                          THEN better
                          ELSE current
            /\ UNCHANGED << paths, fault, dataplanePath >>

\* -------------------------------------------------------- FabridSelector

\* paths[0] is read first (out of range for an empty list). For a SCION
\* dataplane path the FABRID path and the control-plane session are built; any
\* error there (ok = FALSE) returns before s.paths is assigned. On success the
\* first Path object's dataplanePath is replaced in place.
FabridSelector_Initialize(ps, ok) ==
    IF Len(ps) = 0
    THEN /\ fault' = "Initialize: index out of range"
         /\ UNCHANGED << paths, current, dataplanePath >>
    ELSE IF dataplanePath[ps[1]] = "SCION"
    THEN IF ok
         THEN /\ dataplanePath' = [dataplanePath EXCEPT ![ps[1]] = "FABRID"]
              /\ paths' = ps
              /\ current' = 0
              /\ UNCHANGED fault
         ELSE UNCHANGED << paths, current, dataplanePath, fault >>
    ELSE /\ paths' = ps
         /\ current' = 0
         /\ UNCHANGED << fault, dataplanePath >>

FabridSelector_Refresh(ps) ==
    /\ paths' = ps
    /\ current' = NewCurrentIn(ps)
    /\ UNCHANGED << fault, dataplanePath >>

FabridSelector_PathDown(pf, pi, marked) ==
    IF Len(paths) = 0
    THEN /\ fault' = "PathDown: index out of range"
         /\ UNCHANGED << paths, current, dataplanePath >>
    ELSE LET cur == At(paths, current)
             better == FirstMoreAlive(marked, cur, paths)
         IN /\ current' = IF (isInterfaceOnPath(cur, pi) \/ pf = cur.Fingerprint) /\ better >= 0
                          THEN better
                          ELSE current
            /\ UNCHANGED << paths, fault, dataplanePath >>

\* The per-hop policy records of FabridSelector.Initialize for the interface
\* list ifs (positions counted from 0 as in the code, ifs[k + 1] is position
\* k): the first position alone, then positions i, i + 1 for i = 1, 3, ...
\* while i < len - 1, then the last position alone. Interface ids are
\* converted to uint16; a field that is not set is 0. read is history: the
\* positions the record was made from.
HopRecord(ia, ingress, egress, read) ==
    [IA |-> ia, Ingress |-> ingress % 65536, Egress |-> egress % 65536, read |-> read]

\* Variant: an interior record carries the domain of its egress interface.
FabridHops_egressDomain(ifs) ==
    LET n == Len(ifs)
    IN  << HopRecord(ifs[1].IA, 0, ifs[1].IfID, {0}) >>
        \o [j \in 1..((n - 1) \div 2) |->
               HopRecord(ifs[2 * j + 1].IA, ifs[2 * j].IfID, ifs[2 * j + 1].IfID,
                         {2 * j - 1, 2 * j})]
        \o << HopRecord(ifs[n].IA, ifs[n].IfID, 0, {n - 1}) >>

FabridHops(ifs) ==
    LET n == Len(ifs)
    IN  << HopRecord(ifs[1].IA, 0, ifs[1].IfID, {0}) >>
        \o [j \in 1..((n - 1) \div 2) |->
               HopRecord(ifs[2 * j].IA, ifs[2 * j].IfID, ifs[2 * j + 1].IfID,
                         {2 * j - 1, 2 * j})]
        \o << HopRecord(ifs[n].IA, ifs[n].IfID, 0, {n - 1}) >>

\* ------------------------------------------------------- PingingSelector

\* stats.RecordLatency(remote, pf, d) on the registry's table for the remote.
RecordLatency(lat, pf, d) == [lat EXCEPT ![pf] = d]

\* stats.LowestLatency(dst, paths): index of the path with the lowest recorded
\* latency for dst, the first such in list order; a path with no sample ranks
\* after every recorded one; 0 for an empty list. lat is the registry's table
\* at the time of the call; it holds samples for the remote domain's address.
LowestLatency(lat, dst, ps) ==
    LET l(i) == IF dst # "remote" \/ lat[At(ps, i).Fingerprint] = 0
                THEN Timeout + 1
                ELSE lat[At(ps, i).Fingerprint]
        best == { i \in 0..(Len(ps) - 1) : \A j \in 0..(Len(ps) - 1) : l(i) <= l(j) }
    IN IF Len(ps) = 0 THEN 0 ELSE Min(best)

PingingSelector_Initialize(dst, ps) ==
    /\ local' = "local"
    /\ remote' = dst
    /\ paths' = ps
    /\ current' = LowestLatency(latency, dst, ps)
    /\ UNCHANGED << fault, dataplanePath, numActive, pinger, ctxDone, loopVars, latency >>

\* Variant: Refresh installs the paths and keeps the index.
PingingSelector_Refresh_keep(ps) ==
    /\ paths' = ps
    /\ UNCHANGED << current, fault, dataplanePath, pingVars >>

PingingSelector_Refresh(ps) ==
    /\ paths' = ps
    /\ current' = LowestLatency(latency, remote, ps)
    /\ UNCHANGED << fault, dataplanePath, pingVars >>

\* reselectPath, with the registry's table at the time of the call.
reselectPath(lat) == current' = LowestLatency(lat, remote, paths)

PingingSelector_PathDown(pf, pi) ==
    /\ reselectPath(latency)
    /\ UNCHANGED << paths, fault, dataplanePath, pingVars >>

\* ensureRunning: nothing happens for an intra-domain remote (before Initialize
\* both addresses are zero, hence equal) or when a pinger exists; otherwise the
\* context is created and, unless ping.NewPinger fails, the loop is started.
\* Variant: a loop is started whether or not a pinger exists.
ensureRunning_again(newPingerOk) ==
    IF local = remote \/ ~newPingerOk
    THEN UNCHANGED << pinger, loopPc, loopsStarted >>
    ELSE /\ pinger' = "open"
         /\ loopPc' = "select"
         /\ loopsStarted' = loopsStarted + 1

ensureRunning(newPingerOk) ==
    IF local = remote \/ pinger # "nil" \/ ~newPingerOk
    THEN UNCHANGED << pinger, loopPc, loopsStarted >>
    ELSE /\ pinger' = "open"
         /\ loopPc' = "select"
         /\ loopsStarted' = loopsStarted + 1

PingingSelector_SetActive(n, newPingerOk) ==
    /\ ensureRunning(newPingerOk)
    /\ numActive' = n
    /\ UNCHANGED << selVars, fault, dataplanePath, local, remote, ctxDone,
                    tickK, sequenceNo, replyPending, pingTimeout, latency >>

PingingSelector_Close ==
    /\ IF pinger = "nil"
       THEN UNCHANGED << ctxDone, pinger >>
       ELSE /\ ctxDone' = TRUE
            /\ pinger' = "closed"
    /\ UNCHANGED << selVars, fault, dataplanePath, local, remote, numActive, loopVars, latency >>

\* ------------------------------------------------ PingingSelector.run()

\* case <-s.pingerCtx.Done(): run returns and its locals (sequenceNo,
\* replyPending, the timer) are gone.
run_Done ==
    /\ loopPc = "select"
    /\ ctxDone
    /\ loopPc' = "exit"
    /\ sequenceNo' = 0
    /\ replyPending' = {}
    /\ pingTimeout' = "off"
    /\ UNCHANGED << selVars, fault, dataplanePath, local, remote, numActive, pinger,
                    ctxDone, tickK, latency >>

\* case <-pingTicker.C, up to "if numActive == 0 { continue }". s.paths is read
\* without the mutex; the slice expression s.paths[:numActive] is a later read.
run_Tick ==
    /\ loopPc = "select"
    /\ sequenceNo < MaxSeq
    /\ LET n == IF numActive > Len(paths) THEN Len(paths) ELSE numActive
       IN IF n = 0
          THEN UNCHANGED << loopPc, tickK >>
          ELSE /\ loopPc' = "send"
               /\ tickK' = n
    /\ UNCHANGED << selVars, fault, dataplanePath, local, remote, numActive, pinger,
                    ctxDone, sequenceNo, replyPending, pingTimeout, latency >>

\* resetTimer(pingTimeout, s.Timeout): the timer is stopped, an event still
\* queued on its channel is dropped, and the timer runs anew.
resetTimer(t) == "armed"

\* The rest of the tick: activePaths := s.paths[:numActive], the additions to
\* replyPending, sequenceNo++, sendPings, resetTimer. When a Refresh has
\* installed a list shorter than numActive in between, the slice expression
\* either panics (numActive beyond the capacity, or a nil element is then
\* dereferenced) or yields elements past the list's end (stale); sendPings
\* panics when pinger.Send fails, which it does on a closed pinger.
run_TickSend(outcome, stale) ==
    /\ loopPc = "send"
    /\ outcome = "out of range" => tickK > Len(paths)
    /\ outcome = "sent" => pinger = "open"
    /\ Len(stale) = (IF tickK > Len(paths) THEN tickK - Len(paths) ELSE 0)
    /\ LET activePaths == IF tickK > Len(paths) THEN paths \o stale
                          ELSE SubSeq(paths, 1, tickK)
       IN IF outcome = "out of range"
          THEN /\ fault' = "run: slice bounds out of range"
               /\ UNCHANGED loopVars
          ELSE IF outcome = "send error"
          THEN /\ fault' = "sendPings: panic(err)"
               /\ UNCHANGED loopVars
          ELSE /\ replyPending' = replyPending \cup
                                  { activePaths[i].Fingerprint : i \in 1..Len(activePaths) }
               /\ sequenceNo' = (sequenceNo + 1) % 65536
               /\ pingTimeout' = resetTimer(pingTimeout)
               /\ loopPc' = "select"
               /\ tickK' = 0
               /\ UNCHANGED fault
    /\ UNCHANGED << selVars, dataplanePath, local, remote, numActive, pinger, ctxDone, latency >>

\* Variant: the sequence number of the reply is not compared.
ReplyAccepted_anySeq(r) ==
    /\ r.err = "none"
    /\ r.src = remote
    /\ r.fp # 0
    /\ r.fp \in replyPending

\* handlePingReply records the reply iff it is a successful reply from the
\* remote, for the current sequence number and an awaited fingerprint.
ReplyAccepted(r) ==
    /\ r.err = "none"
    /\ r.src = remote
    /\ r.seq = sequenceNo
    /\ r.fp # 0
    /\ r.fp \in replyPending

\* Variant: an internal-connectivity error is reported with its ingress
\* interface.
handlePingReply_notify_ingress(r) ==
    IF r.err = "none" \/ r.fp = 0 THEN NoNotify
    ELSE IF r.err = "InternalConnectivityDown"
    THEN [pf |-> r.fp, pi |-> [IA |-> r.IA, IfID |-> r.Ingress]]
    ELSE IF r.err = "ExternalInterfaceDown"
    THEN [pf |-> r.fp, pi |-> [IA |-> r.IA, IfID |-> r.Interface]]
    ELSE NoNotify

\* handlePingReply, reply.Error != nil: the stats.NotifyPathDown(pf, pi) call
\* it makes (none when the reply's path has no fingerprint, for any other
\* error, and for a reply without error).
handlePingReply_notify(r) ==
    IF r.err = "none" \/ r.fp = 0 THEN NoNotify
    ELSE IF r.err = "InternalConnectivityDown"
    THEN [pf |-> r.fp, pi |-> [IA |-> r.IA, IfID |-> r.Egress]]
    ELSE IF r.err = "ExternalInterfaceDown"
    THEN [pf |-> r.fp, pi |-> [IA |-> r.IA, IfID |-> r.Interface]]
    ELSE NoNotify

handlePingReply_latency(r) ==
    IF ReplyAccepted(r) THEN RecordLatency(latency, r.fp, r.rtt) ELSE latency

handlePingReply_pending(r) ==
    IF ReplyAccepted(r) THEN replyPending \ {r.fp} ELSE replyPending

\* pingTimeout.Stop(): disarms the timer; an event that has already fired
\* stays queued on pingTimeout.C unless the runtime drops it (drained).
TimerStop(drained) ==
    IF pingTimeout = "fired" /\ ~drained THEN "fired" ELSE "off"

\* case r := <-s.pinger.Replies
run_Reply(r, drained) ==
    /\ loopPc = "select"
    /\ latency' = handlePingReply_latency(r)
    /\ replyPending' = handlePingReply_pending(r)
    /\ IF replyPending' = {}
       THEN /\ pingTimeout' = TimerStop(drained)
            /\ reselectPath(latency')
       ELSE UNCHANGED << pingTimeout, current >>
    /\ drained \/ (pingTimeout = "fired" /\ replyPending' = {})
    /\ UNCHANGED << paths, fault, dataplanePath, local, remote, numActive, pinger,
                    ctxDone, loopPc, tickK, sequenceNo >>

\* case <-pingTimeout.C
\* Variant: the timeout reselects before the timeout samples are recorded.
run_Timeout_early ==
    /\ loopPc = "select"
    /\ pingTimeout = "fired"
    /\ pingTimeout' = "off"
    /\ IF replyPending = {}
       THEN UNCHANGED << latency, replyPending, current >>
       ELSE /\ latency' = [fp \in PingFingerprints |->
                              IF fp \in replyPending
                              THEN RecordLatency(latency, fp, Timeout)[fp]
                              ELSE latency[fp]]
            /\ replyPending' = {}
            /\ reselectPath(latency)
    /\ UNCHANGED << paths, fault, dataplanePath, local, remote, numActive, pinger,
                    ctxDone, loopPc, tickK, sequenceNo >>

\* Variant: the timeout event is handled without looking at replyPending.
run_Timeout_unchecked ==
    /\ loopPc = "select"
    /\ pingTimeout = "fired"
    /\ pingTimeout' = "off"
    /\ latency' = [fp \in PingFingerprints |->
                      IF fp \in replyPending
                      THEN RecordLatency(latency, fp, Timeout)[fp]
                      ELSE latency[fp]]
    /\ replyPending' = {}
    /\ reselectPath(latency')
    /\ UNCHANGED << paths, fault, dataplanePath, local, remote, numActive, pinger,
                    ctxDone, loopPc, tickK, sequenceNo >>

run_Timeout ==
    /\ loopPc = "select"
    /\ pingTimeout = "fired"
    /\ pingTimeout' = "off"
    /\ IF replyPending = {}
       THEN UNCHANGED << latency, replyPending, current >>
       ELSE /\ latency' = [fp \in PingFingerprints |->
                              IF fp \in replyPending
                              THEN RecordLatency(latency, fp, Timeout)[fp]
                              ELSE latency[fp]]
            /\ replyPending' = {}
            /\ reselectPath(latency')
    /\ UNCHANGED << paths, fault, dataplanePath, local, remote, numActive, pinger,
                    ctxDone, loopPc, tickK, sequenceNo >>

\* --------------------------------------------------- the Selector interface

\* Which case of Refresh(ps) applies in the current state.
RefreshCase(ps) ==
    IF Len(paths) = 0 THEN "first"
    ELSE IF \E i \in 1..Len(ps) : ps[i].Fingerprint = Path.Fingerprint
         THEN IF current' # current THEN "kept, moved" ELSE "kept"
         ELSE IF Len(ps) = 0 THEN "emptied" ELSE "reset"

\* Which case of PathDown(pf, pi) applies in the current state.
PathDownCase(pf, pi) ==
    IF Len(paths) = 0 THEN "no paths"
    ELSE IF ~(isInterfaceOnPath(Path, pi) \/ pf = Path.Fingerprint) THEN "unaffected"
    ELSE IF current' # current THEN "failover"
    ELSE "stay"

\* What the liveness registry answers to the FirstMoreAlive call of
\* PathDown(pf, pi); -1 also when it is not called.
RegistryAnswer(pf, pi, marked) ==
    IF kind # "Pinging" /\ Len(paths) > 0
       /\ (isInterfaceOnPath(Path, pi) \/ pf = Path.Fingerprint)
    THEN FirstMoreAlive(marked, Path, paths)
    ELSE -1

\* Selector.Initialize(local, remote, paths); dst is remote's domain, ok whether
\* the control-plane setup of the FabridSelector succeeds.
Initialize(dst, ps, ok) ==
    /\ fault = "none"
    /\ ~initialized
    /\ initialized' = TRUE
    /\ \/ /\ kind = "Default" /\ ok /\ dst = "remote"
          /\ DefaultSelector_Initialize(ps)
          /\ UNCHANGED pingVars
       \/ /\ kind = "Fabrid" /\ dst = "remote"
          /\ FabridSelector_Initialize(ps, ok)
          /\ UNCHANGED pingVars
       \/ /\ kind = "Pinging" /\ ok
          /\ PingingSelector_Initialize(dst, ps)
    /\ last' = Hist("Initialize", IF ok THEN "ok" ELSE "control plane error")
    /\ UNCHANGED << replyVars, connVars >>
    /\ UNCHANGED kind

Refresh(ps) ==
    /\ fault = "none"
    /\ \/ /\ kind = "Default"
          /\ DefaultSelector_Refresh(ps)
          /\ UNCHANGED pingVars
       \/ /\ kind = "Fabrid"
          /\ FabridSelector_Refresh(ps)
          /\ UNCHANGED pingVars
       \/ /\ kind = "Pinging"
          /\ PingingSelector_Refresh(ps)
    /\ last' = Hist("Refresh", IF kind = "Pinging" THEN "" ELSE RefreshCase(ps))
    /\ UNCHANGED << replyVars, connVars >>
    /\ UNCHANGED << kind, initialized >>

\* marked: the fingerprints, among those of the held paths, that the liveness
\* registry marks down at the time of the call (the PingingSelector does not
\* ask it).
PathDown(pf, pi, marked) ==
    /\ fault = "none"
    /\ \/ /\ kind = "Default"
          /\ DefaultSelector_PathDown(pf, pi, marked)
          /\ UNCHANGED pingVars
       \/ /\ kind = "Fabrid"
          /\ FabridSelector_PathDown(pf, pi, marked)
          /\ UNCHANGED pingVars
       \/ /\ kind = "Pinging" /\ marked = {}
          /\ PingingSelector_PathDown(pf, pi)
    /\ last' = [Hist("PathDown", IF kind = "Pinging" THEN "" ELSE PathDownCase(pf, pi))
                   EXCEPT !.answer = RegistryAnswer(pf, pi, marked)]
    /\ UNCHANGED << replyVars, connVars >>
    /\ UNCHANGED << kind, initialized >>

\* A send asks the selector for the path (dialedConn.Write).
PathCall ==
    /\ fault = "none"
    /\ last' = Hist("Path", IF Path = Nil THEN "no path" ELSE "path")
    /\ UNCHANGED << replyVars, connVars >>
    /\ UNCHANGED << kind, initialized, selVars, fault, dataplanePath, pingVars >>

SetActive(n, newPingerOk) ==
    /\ fault = "none"
    /\ kind = "Pinging"
    /\ PingingSelector_SetActive(n, newPingerOk)
    /\ last' = Hist("other", "")
    /\ UNCHANGED << replyVars, connRemote, handled, wrote, subVars, histVars >>
    /\ UNCHANGED << kind, initialized >>

\* Selector.Close(): DefaultSelector.Close and FabridSelector.Close return nil.
Close ==
    /\ fault = "none"
    /\ IF kind = "Pinging"
       THEN PingingSelector_Close
       ELSE UNCHANGED << selVars, fault, dataplanePath, pingVars >>
    /\ last' = Hist("other", "")
    /\ UNCHANGED << replyVars, connVars >>
    /\ UNCHANGED << kind, initialized >>

\* ------------------------------------------------------- the probing loop

LoopDone ==
    /\ fault = "none"
    /\ run_Done
    /\ last' = Hist("other", "")
    /\ UNCHANGED << replyVars, connVars >>
    /\ UNCHANGED << kind, initialized >>

Tick ==
    /\ fault = "none"
    /\ run_Tick
    /\ last' = Hist("other", "")
    /\ UNCHANGED << replyVars, connVars >>
    /\ UNCHANGED << kind, initialized >>

TickSend(outcome, stale) ==
    /\ fault = "none"
    /\ run_TickSend(outcome, stale)
    /\ last' = Hist("other", "")
    /\ UNCHANGED << replyVars, connVars >>
    /\ UNCHANGED << kind, initialized >>

Reply(r, drained) ==
    /\ fault = "none"
    /\ run_Reply(r, drained)
    /\ last' = IF replyPending # {} /\ replyPending' = {}
               THEN Hist("run", "round closed by reply")
               ELSE IF replyPending' = {} THEN Hist("run", "reselected") ELSE Hist("other", "")
    /\ UNCHANGED << replyVars, connVars >>
    /\ UNCHANGED << kind, initialized >>

\* The same handler, with the message kept in the history.
ReplyHandled(r, drained) ==
    /\ fault = "none"
    /\ run_Reply(r, drained)
    /\ last' = Hist("reply", "")
    /\ handled' = r
    /\ notified' = handlePingReply_notify(r)
    /\ UNCHANGED << replyVars, connRemote, loopsStarted, wrote, subVars, ifaces, hops, received >>
    /\ UNCHANGED << kind, initialized >>

TimeoutEvent ==
    /\ fault = "none"
    /\ run_Timeout
    /\ last' = IF replyPending # {}
               THEN Hist("run", "round closed by timeout")
               ELSE Hist("timeout", "round already closed")
    /\ UNCHANGED << replyVars, connVars >>
    /\ UNCHANGED << kind, initialized >>

\* The runtime fires the armed timer: its event is queued on pingTimeout.C.
TimerFires ==
    /\ fault = "none"
    /\ pingTimeout = "armed"
    /\ pingTimeout' = "fired"
    /\ last' = Hist("other", "")
    /\ UNCHANGED << replyVars, connVars >>
    /\ UNCHANGED << kind, initialized, selVars, fault, dataplanePath, local, remote,
                    numActive, pinger, ctxDone, loopPc, tickK, sequenceNo, replyPending,
                    latency >>

\* Another connection to the same remote records a latency sample in the
\* shared registry.
RegistryLatency(fp, d) ==
    /\ fault = "none"
    /\ kind = "Pinging"
    /\ latency' = RecordLatency(latency, fp, d)
    /\ latency' # latency
    /\ last' = Hist("other", "")
    /\ UNCHANGED << replyVars, connVars >>
    /\ UNCHANGED << kind, initialized, selVars, fault, dataplanePath, local, remote,
                    numActive, pinger, ctxDone, loopVars >>

\* ------------------------------------------------------- the reply cache

\* The steps of insert: position of the fingerprint (Len + 1 if absent), and
\* the move of position i to the front.
IndexOf(mru, path) ==
    LET found == { k \in 1..Len(mru) : mru[k].Fingerprint = path.Fingerprint }
    IN  IF found = {} THEN Len(mru) + 1 ELSE Min(found)

MoveToFront(mru, i) ==
    [k \in 1..Len(mru) |->
        IF k = 1 THEN mru[i] ELSE IF k <= i THEN mru[k - 1] ELSE mru[k]]

\* Variant: a full list overwrites its first entry.
insert_first(mru, path, maxEntries) ==
    LET n == Len(mru)
        i0 == IndexOf(mru, path)
        grow == i0 = n + 1 /\ n < maxEntries
        grown == IF grow THEN Append(mru, Nil) ELSE mru
        i == IF i0 = n + 1 /\ ~grow THEN 1 ELSE i0
        stored == [grown EXCEPT ![i] = path]
    IN  IF i # 1 THEN MoveToFront(stored, i) ELSE stored

\* Variant: the list grows while it has at most maxEntries entries.
insert_grow(mru, path, maxEntries) ==
    LET n == Len(mru)
        i0 == IndexOf(mru, path)
        grow == i0 = n + 1 /\ n <= maxEntries
        grown == IF grow THEN Append(mru, Nil) ELSE mru
        i == IF i0 = n + 1 /\ ~grow THEN n ELSE i0
        stored == [grown EXCEPT ![i] = path]
    IN  IF i # 1 THEN MoveToFront(stored, i) ELSE stored

\* Variant: the entry that replaces the least recently used one stays last.
insert_last(mru, path, maxEntries) ==
    LET n == Len(mru)
        i0 == IndexOf(mru, path)
        grow == i0 = n + 1 /\ n < maxEntries
        grown == IF grow THEN Append(mru, Nil) ELSE mru
        i == IF i0 = n + 1 /\ ~grow THEN n ELSE i0
        stored == [grown EXCEPT ![i] = path]
    IN  IF i # 1 /\ (i0 # n + 1 \/ grow) THEN MoveToFront(stored, i) ELSE stored

\* Variant: the promoted entry changes places with the first one.
insert_swap(mru, path, maxEntries) ==
    LET n == Len(mru)
        i0 == IndexOf(mru, path)
        grow == i0 = n + 1 /\ n < maxEntries
        grown == IF grow THEN Append(mru, Nil) ELSE mru
        i == IF i0 = n + 1 /\ ~grow THEN n ELSE i0
        stored == [grown EXCEPT ![i] = path]
    IN  IF i # 1 THEN [stored EXCEPT ![1] = stored[i], ![i] = stored[1]] ELSE stored

\* pathsMRU.insert(path, maxEntries); the list is 1-based here, i is the
\* 1-based position the code's index i ends at.
insert(mru, path, maxEntries) ==
    LET n == Len(mru)
        i0 == IndexOf(mru, path)
        grow == i0 = n + 1 /\ n < maxEntries
        grown == IF grow THEN Append(mru, Nil) ELSE mru
        i == IF i0 = n + 1 /\ ~grow THEN n ELSE i0
        stored == [grown EXCEPT ![i] = path]
    IN  IF i # 1 THEN MoveToFront(stored, i) ELSE stored

\* DefaultReplySelector.Path(remote)
DefaultReplySelector_Path(r) ==
    IF Len(remotes[r]) = 0 THEN Nil ELSE remotes[r][1]

\* Variant: Record keeps one list for all remotes.
DefaultReplySelector_Record_shared(r, path) ==
    IF path = Nil
    THEN UNCHANGED remotes
    ELSE remotes' = [q \in Remotes |-> insert(remotes[r], path, maxReplyPaths)]

\* DefaultReplySelector.Record(remote, path); a remote without map entry has
\* the zero remoteEntry, whose list is empty.
DefaultReplySelector_Record(r, path) ==
    IF path = Nil
    THEN UNCHANGED remotes
    ELSE remotes' = [remotes EXCEPT ![r] = insert(@, path, maxReplyPaths)]

\* History: path moves to the front of the recorded paths, replacing the
\* path recorded earlier with its fingerprint.
Recency(rec, path) ==
    LET Other(q) == q.Fingerprint # path.Fingerprint
    IN  << path >> \o SelectSeq(rec, Other)

\* Which case of insert a Record(r, path) takes in the current state.
RecordCase(r, path) ==
    IF path = Nil THEN "absent"
    ELSE IF path.Fingerprint \in FingerprintsOf(remotes[r]) THEN "promote"
    ELSE IF Len(remotes[r]) < maxReplyPaths THEN "append"
    ELSE "evict"

\* A packet from r is received over the path that reverses to path
\* (listenConn.ReadFromVia); Nil when the path cannot be reversed.
Record(r, path) ==
    /\ kind = "Reply"
    /\ DefaultReplySelector_Record(r, path)
    /\ recorded' = IF path = Nil THEN recorded
                   ELSE [recorded EXCEPT ![r] = Recency(@, path)]
    /\ lastRecord' = [remote |-> r, case |-> RecordCase(r, path)]
    /\ UNCHANGED << maxReplyPaths, selectorVars, connVars >>

\* DefaultReplySelector.PathDown(pf, pi): "TODO failover", nothing is done.
DefaultReplySelector_PathDown(pf, pi) == UNCHANGED remotes

\* A down notification is delivered to the reply selector.
ReplyPathDown(pf, pi) ==
    /\ kind = "Reply"
    /\ DefaultReplySelector_PathDown(pf, pi)
    /\ lastRecord' = [remote |-> "", case |-> "PathDown"]
    /\ UNCHANGED << recorded, maxReplyPaths, selectorVars, connVars >>

\* ------------------------------------------------------- sending

\* Destinations of listenConn.WriteTo: the remotes of the reply cache, which are
\* in other domains, an address in the local domain, and a net.Addr that is
\* not a UDPAddr. The destination of dialedConn.Write is connRemote.
WriteDsts == Remotes \cup {"L1", "notUDPAddr"}
DomainOf(dst) == IF dst \in {"L1", "local"} THEN "local" ELSE "remote"

\* What a write did: whether the selector was asked, the error returned, and
\* whether the packet was handed to writeMsg, with which path.
Wrote(call, dst, asked, err, path) ==
    [call |-> call, dst |-> dst, asked |-> asked, err |-> err,
     sent |-> (err = "none"), path |-> path]

\* Variant: the path returned by the selector is not compared with nil.
dialedConn_Write_unchecked ==
    IF connRemote # "local"
    THEN Wrote("Write", connRemote, TRUE, "none", Path)
    ELSE Wrote("Write", connRemote, FALSE, "none", Nil)

\* dialedConn.Write
dialedConn_Write ==
    IF connRemote # "local"
    THEN IF Path = Nil
         THEN Wrote("Write", connRemote, TRUE, "errNoPathTo", Nil)
         ELSE Wrote("Write", connRemote, TRUE, "none", Path)
    ELSE Wrote("Write", connRemote, FALSE, "none", Nil)

\* listenConn.WriteTo
listenConn_WriteTo(dst) ==
    IF dst = "notUDPAddr"
    THEN Wrote("WriteTo", dst, FALSE, "errBadDstAddress", Nil)
    ELSE IF DomainOf(dst) # "local"
    THEN IF DefaultReplySelector_Path(dst) = Nil
         THEN Wrote("WriteTo", dst, TRUE, "errNoPathTo", Nil)
         ELSE Wrote("WriteTo", dst, TRUE, "none", DefaultReplySelector_Path(dst))
    ELSE Wrote("WriteTo", dst, FALSE, "none", Nil)

\* A Write on the dialed connection; towards another domain DialUDP has
\* initialized the selector before it returned the connection.
Write ==
    /\ fault = "none"
    /\ kind # "Reply"
    /\ connRemote = "remote" => initialized
    /\ wrote' = dialedConn_Write
    /\ UNCHANGED << selectorVars, replyVars, connRemote, loopsStarted, handled, subVars, histVars >>

WriteTo(dst) ==
    /\ kind = "Reply"
    /\ wrote' = listenConn_WriteTo(dst)
    /\ UNCHANGED << selectorVars, replyVars, connRemote, loopsStarted, handled, subVars, histVars >>

\* FabridSelector.Initialize on a first candidate whose
\* Metadata.Interfaces is ifaces: the hop records are derived from it before
\* the dataplane path is looked at.
HopsInitialize(ps, ok) ==
    /\ fault = "none"
    /\ kind = "Fabrid"
    /\ ~initialized
    /\ initialized' = TRUE
    /\ FabridSelector_Initialize(ps, ok)
    /\ hops' = IF Len(ps) = 0 THEN hops ELSE FabridHops(ifaces)
    /\ last' = Hist("Initialize", IF ok THEN "ok" ELSE "control plane error")
    /\ UNCHANGED << kind, pingVars, replyVars, connRemote, loopsStarted, handled, wrote,
                    subVars, notified, ifaces, received >>

\* ------------------------------------------------------- receiving

\* How a read on the listening connection ends: the packet is returned; readMsg
\* fails; the packet's path cannot be reversed; or (fabridListenConn) one of
\* the packet's FABRID options cannot be handled.
ReadOutcomes == {"ok", "transport error", "reverse error", "option error"}

\* Variant: the remote's path is recorded however the read ends.
ReadFromVia_recorded_always(path, outcome) == path

\* listenConn.ReadFromVia / fabridListenConn.ReadFromVia: the path recorded for
\* the packet's sender, Nil when readMsg fails (Record is not called) and when
\* the path cannot be reversed (Record is called with nil).
ReadFromVia_recorded(path, outcome) ==
    IF outcome \in {"transport error", "reverse error"} THEN Nil ELSE path

\* A read on the listening connection that receives, or fails to receive, a
\* packet of r over the path that reverses to path. History: nothing has been
\* written since a read that recorded a path.
ReadFromVia(r, path, outcome) ==
    /\ kind = "Reply"
    /\ LET p == ReadFromVia_recorded(path, outcome)
       IN /\ DefaultReplySelector_Record(r, p)
          /\ recorded' = IF p = Nil THEN recorded
                         ELSE [recorded EXCEPT ![r] = Recency(@, p)]
          /\ lastRecord' = IF outcome = "transport error" THEN lastRecord
                           ELSE [remote |-> r, case |-> RecordCase(r, p)]
          /\ wrote' = IF p = Nil THEN wrote ELSE NoWrite
          /\ received' = [remote |-> IF outcome = "transport error" THEN "" ELSE r,
                          path |-> p, outcome |-> outcome]
    /\ UNCHANGED << maxReplyPaths, selectorVars, connRemote, loopsStarted, handled,
                    subVars, notified, ifaces, hops >>

\* ---------------------------------- dialed connection, subscriber and pool

\* filtered(policy, paths): policy.Filter(paths) unless the policy is nil; a
\* Policy keeps, in their order, the paths it admits.
filtered(pol, ps) ==
    IF pol.nil THEN ps ELSE SelectSeq(ps, LAMBDA q : q.Fingerprint \in pol.allow)

Call(name, ps) == [call |-> name, paths |-> ps]

Calls(op, pol, ps, from, log) ==
    [op |-> op, policy |-> pol, paths |-> ps, policyFrom |-> from, log |-> log]

\* The methods of the target selector, whichever implementation it is.
Selector_Initialize(dst, ps, ok) ==
    /\ initialized' = TRUE
    /\ \/ /\ kind = "Default"
          /\ DefaultSelector_Initialize(ps)
          /\ UNCHANGED pingVars
       \/ /\ kind = "Fabrid"
          /\ FabridSelector_Initialize(ps, ok)
          /\ UNCHANGED pingVars
       \/ /\ kind = "Pinging"
          /\ PingingSelector_Initialize(dst, ps)

Selector_Refresh(ps) ==
    /\ \/ /\ kind = "Default"
          /\ DefaultSelector_Refresh(ps)
          /\ UNCHANGED pingVars
       \/ /\ kind = "Fabrid"
          /\ FabridSelector_Refresh(ps)
          /\ UNCHANGED pingVars
       \/ /\ kind = "Pinging"
          /\ PingingSelector_Refresh(ps)
    /\ UNCHANGED initialized

Selector_PathDown(pf, pi, marked) ==
    /\ \/ /\ kind = "Default"
          /\ DefaultSelector_PathDown(pf, pi, marked)
          /\ UNCHANGED pingVars
       \/ /\ kind = "Fabrid"
          /\ FabridSelector_PathDown(pf, pi, marked)
          /\ UNCHANGED pingVars
       \/ /\ kind = "Pinging"
          /\ PingingSelector_PathDown(pf, pi)
    /\ UNCHANGED initialized

Selector_Close ==
    /\ IF kind = "Pinging"
       THEN PingingSelector_Close
       ELSE UNCHANGED << selVars, fault, dataplanePath, pingVars >>
    /\ UNCHANGED initialized

\* openPathRefreshSubscriber(ctx, local, remote, policy, target): ps is the
\* path set pool.subscribe returns (and caches), subscribeOk whether it succeeds.
openPathRefreshSubscriber(pol, ps, subscribeOk, ok) ==
    IF subscribeOk
    THEN /\ policy' = pol
         /\ subscriptions' = subscriptions + 1
         /\ cached' = ps
         /\ Selector_Initialize("remote", filtered(pol, ps), ok)
         /\ calls' = Calls("DialUDP", pol, ps, "DialUDP",
                           << Call("pool.subscribe", <<>>),
                              Call("Initialize", filtered(pol, ps)) >>)
    ELSE /\ calls' = Calls("DialUDP", pol, <<>>, "", << Call("pool.subscribe", <<>>) >>)
         /\ UNCHANGED << policy, subscriptions, cached, initialized, selVars, fault,
                         dataplanePath, pingVars >>

\* pathRefreshSubscriber.Close
pathRefreshSubscriber_Close == subscriptions' = 0

\* Variant: setPolicy filters with the policy it replaces.
setPolicy_old(p) ==
    /\ policy' = p
    /\ Selector_Refresh(filtered(policy, cached))
    /\ calls' = Calls("SetPolicy", p, cached, "SetPolicy",
                      << Call("pool.cachedPaths", cached),
                         Call("Refresh", filtered(policy, cached)) >>)

\* pathRefreshSubscriber.setPolicy
setPolicy(p) ==
    /\ policy' = p
    /\ Selector_Refresh(filtered(p, cached))
    /\ calls' = Calls("SetPolicy", p, cached, "SetPolicy",
                      << Call("pool.cachedPaths", cached),
                         Call("Refresh", filtered(p, cached)) >>)

\* pathRefreshSubscriber.refresh
refresh(ps) ==
    /\ Selector_Refresh(filtered(policy, ps))
    /\ calls' = Calls("refresh", policy, ps, calls.policyFrom,
                      << Call("Refresh", filtered(policy, ps)) >>)

\* DialUDP / DialUDPWithFabrid: given is whether the caller passed a selector
\* (DialUDPWithFabrid makes its own; without one, a connection to another
\* domain gets a DefaultSelector). Only a connection to another domain opens a
\* subscriber.
DialUDP(pol, given, ps, subscribeOk, ok) ==
    /\ fault = "none"
    /\ conn = "none"
    /\ given \/ kind = "Default"
    /\ IF connRemote = "remote"
       THEN /\ openPathRefreshSubscriber(pol, ps, subscribeOk, ok)
            /\ conn' = IF subscribeOk THEN "open" ELSE "failed"
            /\ selectorNil' = FALSE
       ELSE /\ conn' = "open"
            /\ selectorNil' = ~given
            /\ calls' = Calls("DialUDP", pol, <<>>, "", <<>>)
            /\ UNCHANGED << policy, subscriptions, cached, initialized, selVars, fault,
                            dataplanePath, pingVars >>
    /\ UNCHANGED << kind, last, replyVars, connRemote, loopsStarted, handled, wrote, histVars,
                    raceVars >>

\* The pool has a new path set for the destination and delivers it to its
\* subscribers.
PoolRefresh(ps) ==
    /\ fault = "none"
    /\ conn \in {"open", "closed"}
    /\ connRemote = "remote"
    /\ cached' = ps
    /\ IF subscriptions > 0
       THEN refresh(ps)
       ELSE /\ calls' = Calls("refresh", policy, ps, calls.policyFrom, <<>>)
            /\ UNCHANGED << initialized, selVars, fault, dataplanePath, pingVars >>
    /\ UNCHANGED << conn, selectorNil, subscriptions, policy >>
    /\ UNCHANGED << kind, last, replyVars, connRemote, loopsStarted, handled, wrote, histVars,
                    raceVars >>

\* The pool delivers PathDown(pf, pi) to its subscribers
\* (pathRefreshSubscriber.PathDown).
PoolPathDown(pf, pi, marked) ==
    /\ fault = "none"
    /\ conn \in {"open", "dialing"}
    /\ subscriptions > 0
    /\ kind = "Pinging" => marked = {}
    /\ Selector_PathDown(pf, pi, marked)
    /\ calls' = Calls("PathDown", policy, <<>>, calls.policyFrom, << Call("PathDown", <<>>) >>)
    /\ UNCHANGED << conn, selectorNil, subscriptions, policy, cached >>
    /\ UNCHANGED << kind, last, replyVars, connRemote, loopsStarted, handled, wrote, histVars,
                    raceVars >>

\* dialedConn.SetPolicy
SetPolicy(p) ==
    /\ fault = "none"
    /\ conn \in {"open", "closed"}
    /\ IF connRemote = "remote"
       THEN setPolicy(p)
       ELSE /\ calls' = Calls("SetPolicy", p, cached, calls.policyFrom, <<>>)
            /\ UNCHANGED << policy, initialized, selVars, fault, dataplanePath, pingVars >>
    /\ UNCHANGED << conn, selectorNil, subscriptions, cached >>
    /\ UNCHANGED << kind, last, replyVars, connRemote, loopsStarted, handled, wrote, histVars,
                    raceVars >>

\* Variant: the subscriber is left in the pool.
dialedConn_Close_subscribed ==
    /\ UNCHANGED subscriptions
    /\ IF selectorNil
       THEN UNCHANGED << initialized, selVars, fault, dataplanePath, pingVars >>
       ELSE Selector_Close
    /\ calls' = Calls("Close", policy, cached, calls.policyFrom,
                      (IF selectorNil THEN <<>> ELSE << Call("selector.Close", <<>>) >>)
                      \o << Call("baseUDPConn.Close", <<>>) >>)

\* dialedConn.Close: the subscriber if there is one, then the selector if
\* there is one, then the socket.
dialedConn_Close ==
    /\ IF connRemote = "remote"
       THEN pathRefreshSubscriber_Close
       ELSE UNCHANGED subscriptions
    /\ IF selectorNil
       THEN UNCHANGED << initialized, selVars, fault, dataplanePath, pingVars >>
       ELSE Selector_Close
    /\ calls' = Calls("Close", policy, cached, calls.policyFrom,
                      (IF connRemote = "remote" THEN << Call("pool.unsubscribe", <<>>) >> ELSE <<>>)
                      \o (IF selectorNil THEN <<>> ELSE << Call("selector.Close", <<>>) >>)
                      \o << Call("baseUDPConn.Close", <<>>) >>)

ConnClose ==
    /\ fault = "none"
    /\ conn \in {"open", "closed"}
    /\ dialedConn_Close
    /\ conn' = "closed"
    /\ UNCHANGED << selectorNil, policy, cached >>
    /\ UNCHANGED << kind, last, replyVars, connRemote, loopsStarted, handled, wrote, histVars,
                    raceVars >>

\* ------------------ the subscriber's operations, goroutine by goroutine

\* openPathRefreshSubscriber up to the return of pool.subscribe: the
\* subscriber is built with the policy and registered in the pool, which
\* returns the path set ps it holds for the destination.
DialSubscribe(pol, ps, subscribeOk) ==
    /\ fault = "none"
    /\ conn = "none"
    /\ connRemote = "remote"
    /\ IF subscribeOk
       THEN /\ conn' = "dialing"
            /\ policy' = pol
            /\ subscriptions' = subscriptions + 1
            /\ cached' = ps
            /\ callerOp' = [op |-> "dial", paths |-> ps]
            /\ calls' = Calls("DialUDP", pol, ps, "DialUDP", << Call("pool.subscribe", <<>>) >>)
       ELSE /\ conn' = "failed"
            /\ calls' = Calls("DialUDP", pol, <<>>, "", << Call("pool.subscribe", <<>>) >>)
            /\ UNCHANGED << policy, subscriptions, cached, callerOp >>
    /\ UNCHANGED << initialized, selVars, fault, dataplanePath, pingVars, selectorNil, poolOp >>
    /\ UNCHANGED << kind, last, replyVars, connRemote, loopsStarted, handled, wrote, histVars >>

\* The rest of openPathRefreshSubscriber: s.target.Initialize(local, remote,
\* filtered(s.policy, paths)) with the set pool.subscribe returned; DialUDP
\* then returns the connection.
DialInitialize(ok) ==
    /\ fault = "none"
    /\ conn = "dialing"
    /\ Selector_Initialize("remote", filtered(policy, callerOp.paths), ok)
    /\ conn' = "open"
    /\ callerOp' = NoOp
    /\ calls' = Calls("DialUDP", policy, callerOp.paths, "DialUDP",
                      << Call("Initialize", filtered(policy, callerOp.paths)) >>)
    /\ UNCHANGED << selectorNil, subscriptions, policy, cached, poolOp >>
    /\ UNCHANGED << kind, last, replyVars, connRemote, loopsStarted, handled, wrote, histVars >>

\* setPolicy up to the return of pool.cachedPaths: s.policy is assigned
\* (without a lock) and the cached set is read.
SetPolicyStore(p) ==
    /\ fault = "none"
    /\ conn = "open"
    /\ callerOp = NoOp
    /\ policy' = p
    /\ callerOp' = [op |-> "setPolicy", paths |-> cached]
    /\ calls' = Calls("SetPolicy", p, cached, "SetPolicy", << Call("pool.cachedPaths", cached) >>)
    /\ UNCHANGED << initialized, selVars, fault, dataplanePath, pingVars >>
    /\ UNCHANGED << conn, selectorNil, subscriptions, cached, poolOp >>
    /\ UNCHANGED << kind, last, replyVars, connRemote, loopsStarted, handled, wrote, histVars >>

\* The rest of setPolicy: s.target.Refresh(filtered(s.policy, paths)).
SetPolicyRefresh ==
    /\ fault = "none"
    /\ callerOp.op = "setPolicy"
    /\ Selector_Refresh(filtered(policy, callerOp.paths))
    /\ callerOp' = NoOp
    /\ calls' = Calls("SetPolicy", policy, callerOp.paths, "SetPolicy",
                      << Call("Refresh", filtered(policy, callerOp.paths)) >>)
    /\ UNCHANGED << conn, selectorNil, subscriptions, policy, cached, poolOp >>
    /\ UNCHANGED << kind, last, replyVars, connRemote, loopsStarted, handled, wrote, histVars >>

\* The pool has a new path set for the destination and calls refresh on the
\* registered subscriber, which reads s.policy and filters the set.
PoolRefreshBegin(ps) ==
    /\ fault = "none"
    /\ conn \in {"dialing", "open"}
    /\ subscriptions > 0
    /\ poolOp = NoOp
    /\ cached' = ps
    /\ poolOp' = [op |-> "refresh", paths |-> filtered(policy, ps)]
    /\ UNCHANGED << initialized, selVars, fault, dataplanePath, pingVars >>
    /\ UNCHANGED << conn, selectorNil, subscriptions, policy, calls, callerOp >>
    /\ UNCHANGED << kind, last, replyVars, connRemote, loopsStarted, handled, wrote, histVars >>

\* The rest of refresh: s.target.Refresh with the filtered set.
PoolRefreshDeliver ==
    /\ fault = "none"
    /\ poolOp.op = "refresh"
    /\ Selector_Refresh(poolOp.paths)
    /\ poolOp' = NoOp
    /\ calls' = Calls("refresh", policy, cached, calls.policyFrom,
                      << Call("Refresh", poolOp.paths) >>)
    /\ UNCHANGED << conn, selectorNil, subscriptions, policy, cached, callerOp >>
    /\ UNCHANGED << kind, last, replyVars, connRemote, loopsStarted, handled, wrote, histVars >>

\* ------------------------------------------------------- specifications

SelectorInit ==
    /\ initialized = FALSE
    /\ paths = <<>>
    /\ current = 0
    /\ fault = "none"
    /\ dataplanePath = [p \in PathObjs |-> "SCION"]
    /\ local = "zero"
    /\ remote = "zero"
    /\ numActive = 0
    /\ pinger = "nil"
    /\ ctxDone = FALSE
    /\ loopPc = "none"
    /\ tickK = 0
    /\ sequenceNo = 0
    /\ replyPending = {}
    /\ pingTimeout = "off"
    /\ latency = [fp \in PingFingerprints |-> 0]
    /\ last = Hist("new", "")

\* NewDefaultReplySelector()
ReplyInit ==
    /\ remotes = [r \in Remotes |-> <<>>]
    /\ recorded = [r \in Remotes |-> <<>>]
    /\ lastRecord = [remote |-> "", case |-> "new"]

\* A nil Policy, and the policies that admit the paths with the fingerprints
\* in allow.
NilPolicy == [nil |-> TRUE, allow |-> {}]
Policies == {NilPolicy} \cup [nil : {FALSE}, allow : SUBSET PingFingerprints]

\* op: the operation; policy, paths: its arguments (for Close and SetPolicy,
\* paths is the cached set the pool held); policyFrom: the operation that last
\* assigned pathRefreshSubscriber.policy; log: the calls it made, in order.
NoCalls == [op |-> "", policy |-> NilPolicy, paths |-> <<>>, policyFrom |-> "", log |-> <<>>]

HistInit ==
    /\ notified = NoNotify
    /\ ifaces = <<>>
    /\ hops = <<>>
    /\ received = NoRead

\* No connection has been dialed.
SubInit ==
    /\ conn = "none"
    /\ selectorNil = FALSE
    /\ subscriptions = 0
    /\ policy = NilPolicy
    /\ cached = <<>>
    /\ calls = NoCalls
    /\ callerOp = NoOp
    /\ poolOp = NoOp

\* DialUDP towards a remote in another domain.
ConnInit ==
    /\ connRemote = "remote"
    /\ loopsStarted = 0
    /\ handled = NoReply
    /\ wrote = NoWrite
    /\ SubInit
    /\ HistInit

\* A dialed connection with any of the three selectors.
Init ==
    /\ kind \in { "Default", "Fabrid", "Pinging" }
    /\ SelectorInit
    /\ ReplyInit
    /\ ConnInit
    /\ maxReplyPaths = MaxCapacity

Next ==
    \/ \E dst \in {"local", "remote"}, ps \in CandidatesFor(kind), ok \in BOOLEAN :
          Initialize(dst, ps, ok)
    \/ \E ps \in CandidatesFor(kind) : Refresh(ps)
    \/ \E pf \in Fingerprints, pi \in DownInterfaces, marked \in SUBSET FingerprintsOf(paths) :
          PathDown(pf, pi, marked)
    \/ PathCall
    \/ \E n \in ActiveCounts, newPingerOk \in BOOLEAN : SetActive(n, newPingerOk)
    \/ Close
    \/ LoopDone
    \/ Tick
    \/ \E outcome \in {"sent", "send error", "out of range"},
          stale \in StaleSeqs :
          TickSend(outcome, stale)
    \/ \E r \in RemoteReplies, drained \in BOOLEAN : Reply(r, drained)
    \/ TimeoutEvent
    \/ TimerFires
    \/ \E fp \in PingFingerprints, d \in RTTs \cup {Timeout} : RegistryLatency(fp, d)

Spec == Init /\ [][Next]_vars

\* A dialed connection with a DefaultSelector or a FabridSelector.
InitPinned ==
    /\ kind \in { "Default", "Fabrid" }
    /\ SelectorInit
    /\ ReplyInit
    /\ ConnInit
    /\ maxReplyPaths = MaxCapacity

NextPinned ==
    \/ \E ps \in CandidateSets, ok \in BOOLEAN : Initialize("remote", ps, ok)
    \/ \E ps \in CandidateSets : Refresh(ps)
    \/ \E pf \in Fingerprints, pi \in DownInterfaces, marked \in SUBSET FingerprintsOf(paths) :
          PathDown(pf, pi, marked)
    \/ PathCall
    \/ Close

SpecPinned == InitPinned /\ [][NextPinned]_vars

\* A listening connection with the DefaultReplySelector, for each capacity.
InitReply ==
    /\ kind = "Reply"
    /\ SelectorInit
    /\ ReplyInit
    /\ ConnInit
    /\ maxReplyPaths \in 1..MaxCapacity

NextReply ==
    \/ \E r \in Remotes : \E path \in ReplyPaths(r) \cup {Nil} : Record(r, path)
    \/ \E pf \in ReplyFingerprints, pi \in DownInterfaces : ReplyPathDown(pf, pi)

SpecReply == InitReply /\ [][NextReply]_vars

\* A dialed connection with a PingingSelector whose probes are all sent; every
\* message taken from pinger.Replies is kept in the history.
InitProbing ==
    /\ kind = "Pinging"
    /\ SelectorInit
    /\ ReplyInit
    /\ ConnInit
    /\ maxReplyPaths = MaxCapacity

NextProbing ==
    \/ \E ps \in PingCandidateSets : Initialize("remote", ps, TRUE)
    \/ \E n \in ActiveCounts : SetActive(n, TRUE)
    \/ Tick
    \/ TickSend("sent", << >>)
    \/ \E r \in Replies, drained \in BOOLEAN : ReplyHandled(r, drained)
    \/ TimeoutEvent
    \/ TimerFires

SpecProbing == InitProbing /\ [][NextProbing]_vars

\* A dialed connection towards the local or another domain, or a listening
\* connection, that is written to.
InitSend ==
    /\ kind \in { "Default", "Fabrid", "Pinging", "Reply" }
    /\ SelectorInit
    /\ ReplyInit
    /\ connRemote \in (IF kind = "Reply" THEN {"remote"} ELSE {"local", "remote"})
    /\ loopsStarted = 0
    /\ handled = NoReply
    /\ wrote = NoWrite
    /\ SubInit
    /\ HistInit
    /\ maxReplyPaths = MaxCapacity

NextSend ==
    \/ /\ connRemote = "remote"
       /\ \E ps \in PingCandidateSets, ok \in BOOLEAN : Initialize("remote", ps, ok)
    \/ /\ initialized
       /\ \E ps \in PingCandidateSets : Refresh(ps)
    \/ /\ initialized
       /\ \E pf \in PingFingerprints, pi \in DownInterfaces : PathDown(pf, pi, {})
    \/ Write
    \/ \E r \in Remotes :
          \E path \in { q \in ReplyPaths(r) : q.Fingerprint \in PingFingerprints } : Record(r, path)
    \/ \E dst \in WriteDsts : WriteTo(dst)

SpecSend == InitSend /\ [][NextSend]_vars

\* A connection that is dialed, has its policy set, receives the pool's
\* refreshes and liveness events, and is closed.
InitSubscriber ==
    /\ kind \in { "Default", "Fabrid", "Pinging" }
    /\ SelectorInit
    /\ ReplyInit
    /\ connRemote \in {"local", "remote"}
    /\ loopsStarted = 0
    /\ handled = NoReply
    /\ wrote = NoWrite
    /\ SubInit
    /\ HistInit
    /\ maxReplyPaths = MaxCapacity

NextSubscriber ==
    \/ \E pol \in Policies, given \in BOOLEAN, ps \in PingCandidateSets,
          subscribeOk \in BOOLEAN, ok \in BOOLEAN :
          /\ connRemote = "local" => (ps = <<>> /\ subscribeOk /\ ok /\ pol = NilPolicy)
          /\ (kind # "Fabrid" \/ ~subscribeOk) => ok
          /\ DialUDP(pol, given, ps, subscribeOk, ok)
    \/ \E ps \in PingCandidateSets : PoolRefresh(ps)
    \/ \E pf \in PingFingerprints, pi \in DownInterfaces, marked \in SUBSET PingFingerprints :
          PoolPathDown(pf, pi, marked)
    \/ \E p \in Policies : SetPolicy(p)
    \/ ConnClose

SpecSubscriber == InitSubscriber /\ [][NextSubscriber]_vars

\* A FabridSelector initialized with a first candidate of any interface list.
InitHops ==
    /\ kind = "Fabrid"
    /\ SelectorInit
    /\ ReplyInit
    /\ connRemote = "remote"
    /\ loopsStarted = 0
    /\ handled = NoReply
    /\ wrote = NoWrite
    /\ SubInit
    /\ notified = NoNotify
    /\ ifaces \in InterfaceLists
    /\ hops = <<>>
    /\ received = NoRead
    /\ maxReplyPaths = MaxCapacity

NextHops ==
    \E ps \in PingCandidateSets, ok \in BOOLEAN : HopsInitialize(ps, ok)

SpecHops == InitHops /\ [][NextHops]_vars

\* A listening connection that receives packets and replies.
InitListen ==
    /\ kind = "Reply"
    /\ SelectorInit
    /\ ReplyInit
    /\ ConnInit
    /\ maxReplyPaths = MaxCapacity

NextListen ==
    \/ \E r \in Remotes, outcome \in ReadOutcomes :
          \E path \in { q \in ReplyPaths(r) : q.Fingerprint \in PingFingerprints } :
             ReadFromVia(r, path, outcome)
    \/ \E dst \in WriteDsts : WriteTo(dst)
    \/ \E pf \in PingFingerprints, pi \in DownInterfaces : ReplyPathDown(pf, pi)

SpecListen == InitListen /\ [][NextListen]_vars

\* A connection towards another domain whose dial and SetPolicy calls run on
\* the caller's goroutine while the pool delivers refreshes and down
\* notifications on its own.
InitRace ==
    /\ kind \in { "Default", "Fabrid", "Pinging" }
    /\ SelectorInit
    /\ ReplyInit
    /\ ConnInit
    /\ maxReplyPaths = MaxCapacity

NextRace ==
    \/ \E pol \in Policies, ps \in PingCandidateSets, subscribeOk \in BOOLEAN :
          /\ ~subscribeOk => (ps = <<>> /\ pol = NilPolicy)
          /\ DialSubscribe(pol, ps, subscribeOk)
    \/ \E ok \in BOOLEAN : (kind # "Fabrid" => ok) /\ DialInitialize(ok)
    \/ \E p \in Policies : SetPolicyStore(p)
    \/ SetPolicyRefresh
    \/ \E ps \in PingCandidateSets : PoolRefreshBegin(ps)
    \/ PoolRefreshDeliver
    \/ \E pf \in PingFingerprints, pi \in DownInterfaces, marked \in SUBSET PingFingerprints :
          PoolPathDown(pf, pi, marked)

SpecRace == InitRace /\ [][NextRace]_vars

\* The scheduling of run's select: a case that is ready again and again is
\* eventually taken (the Done case stays ready once the context is cancelled),
\* and a tick handler that has begun goes on to its end.
SpecLive ==
    /\ Spec
    /\ SF_vars(LoopDone)
    /\ WF_vars(\E outcome \in {"sent", "send error", "out of range"}, stale \in StaleSeqs :
                  TickSend(outcome, stale))

\* ------------------------------------------------------- properties

PinnedKinds == { "Default", "Fabrid" }

\* C1: for the DefaultSelector and the FabridSelector, a Refresh keeps the
\* fingerprint of the selected path when the new paths hold a path with it
\* (wherever it now is); otherwise, when they are not empty, Path() is the
\* first of them.
C1_RefreshKeepsFingerprint ==
    [][ last'.op = "Refresh" /\ kind \in PinnedKinds =>
           /\ Refresh(paths')
           /\ IF Path # Nil /\ Path.Fingerprint \in FingerprintsOf(paths')
              THEN Path'.Fingerprint = Path.Fingerprint
              ELSE (paths' # <<>> => Path' = paths'[1]) ]_vars

\* A Refresh found the selected fingerprint at another index, not the first.
C1_KeptAtNewIndex ==
    /\ kind \in PinnedKinds
    /\ last.op = "Refresh" /\ last.tag = "kept, moved"
    /\ current > 0

\* C2: for the DefaultSelector and the FabridSelector holding paths, a
\* PathDown(pf, pi) with pf not the selected fingerprint and pi not a hop of the
\* selected path changes neither the index nor the paths, whatever the
\* liveness registry marks.
C2_UnrelatedPathDownChangesNothing ==
    [][ last'.op = "PathDown" /\ last'.tag = "unaffected" /\ kind \in PinnedKinds =>
           /\ paths # <<>>
           /\ current' = current
           /\ paths' = paths ]_vars

\* An unrelated PathDown arrived while a second path was held.
C2_UnrelatedArrived ==
    /\ kind \in PinnedKinds
    /\ last.op = "PathDown" /\ last.tag = "unaffected"
    /\ Len(paths) > 1

\* C3: for the DefaultSelector and the FabridSelector holding paths, a
\* PathDown(pf, pi) with pf the selected fingerprint or pi a hop of the selected
\* path sets the index to the answer of FirstMoreAlive(selected, paths) if that
\* is >= 0 and leaves it otherwise. With paths [A, B] and A selected, PathDown
\* on A with B reported selects B; a PathDown on B with no path reported then
\* keeps B.
C3_AffectedPathDownFailsOver ==
    [][ last'.op = "PathDown" /\ last'.tag \in { "failover", "stay" } /\ kind \in PinnedKinds =>
           /\ paths # <<>>
           /\ paths' = paths
           /\ current' = IF last'.answer >= 0 THEN last'.answer ELSE current
           /\ Len(paths) = 2 /\ current = 0 /\ last'.answer = 1 => current' = 1
           /\ Len(paths) = 2 /\ current = 1 /\ last'.answer = -1 => current' = 1 ]_vars

\* A PathDown for the selected path moved the selection to the second path.
C3_FailedOver ==
    /\ kind \in PinnedKinds
    /\ last.op = "PathDown" /\ last.tag = "failover"
    /\ last.answer = 1
    /\ current = 1

\* C4: PathDown never faults, on any selector, with or without paths; with no
\* paths it does nothing.
C4_PathDownNeverFaults ==
    fault # "PathDown: index out of range"

\* C5: in every state of every selector, either no paths are held and Path()
\* is nil, or the index is within the held paths and Path() is the path at it.
C5_IndexWithinPaths ==
    \/ /\ Len(paths) = 0
       /\ Path = Nil
    \/ /\ current \in 0..(Len(paths) - 1)
       /\ Path = At(paths, current)

\* The probing loop closed a round on a reply and selected the second path.
C5_LoopSelectedSecond ==
    /\ kind = "Pinging"
    /\ last.op = "run" /\ last.tag = "round closed by reply"
    /\ Len(paths) = 2
    /\ current = 1

\* C6: on the PingingSelector, right after Initialize, Refresh, PathDown and
\* the close of a probing round, the index is LowestLatency(remote, paths) for
\* the paths then held, and the selection is one of them.
C6_LowestLatencySelected ==
    kind = "Pinging" /\ last.op \in { "Initialize", "Refresh", "PathDown", "run" }
    => /\ current = LowestLatency(latency, remote, paths)
       /\ paths # <<>> => Path \in { paths[k] : k \in DOMAIN paths }

\* A round closed by timeout left the second path with the lower latency.
C6_TimeoutSelectedSecond ==
    /\ kind = "Pinging"
    /\ last.op = "run" /\ last.tag = "round closed by timeout"
    /\ Len(paths) = 2
    /\ current = 1

\* The capacity-many most recently recorded paths of remote r.
MostRecent(r) ==
    SubSeq(recorded[r], 1, IF Len(recorded[r]) < maxReplyPaths
                           THEN Len(recorded[r]) ELSE maxReplyPaths)

\* C7: for every remote, each of the capacity-many most recently recorded
\* distinct fingerprints is in its list; once more than capacity-many distinct
\* fingerprints were recorded for it, the list has exactly capacity-many
\* entries and its first is the most recently recorded path.
C7_MostRecentAreHeld ==
    \A r \in Remotes :
       /\ FingerprintsOf(MostRecent(r)) \subseteq FingerprintsOf(remotes[r])
       /\ Len(recorded[r]) > maxReplyPaths
          => /\ Len(remotes[r]) = maxReplyPaths
             /\ remotes[r][1] = recorded[r][1]

\* Every fingerprint was recorded for R1, more than the list can hold, the last
\* Record dropping an entry.
C7_OverCapacity ==
    /\ Len(recorded["R1"]) > maxReplyPaths
    /\ maxReplyPaths > 1
    /\ lastRecord = [remote |-> "R1", case |-> "evict"]
    /\ Len(recorded["R1"]) = Cardinality(ReplyFingerprints)

\* C8: every remote's list has at most capacity-many entries, no two of them
\* with the same fingerprint.
C8_BoundedAndDistinct ==
    \A r \in Remotes :
       /\ Len(remotes[r]) <= maxReplyPaths
       /\ \A j, k \in DOMAIN remotes[r] :
             remotes[r][j].Fingerprint = remotes[r][k].Fingerprint => j = k

\* A full list received a path with one of its fingerprints.
C8_FullListPromoted ==
    /\ Len(remotes["R1"]) = maxReplyPaths
    /\ maxReplyPaths = MaxCapacity
    /\ lastRecord = [remote |-> "R1", case |-> "promote"]

\* C9: recording a path with a new fingerprint for a remote whose list is full
\* drops exactly the last entry: the new path is first and the other entries
\* follow in their order. With capacity 2, recording P1, P2, P3 gives [P3, P2].
C9_EvictsLast ==
    [][ lastRecord'.case = "evict" =>
           LET r == lastRecord'.remote
               path == recorded'[r][1]
           IN  /\ Record(r, path)
               /\ path.Fingerprint \notin FingerprintsOf(remotes[r])
               /\ Len(remotes[r]) = maxReplyPaths
               /\ remotes'[r] = << path >> \o SubSeq(remotes[r], 1, Len(remotes[r]) - 1)
               /\ maxReplyPaths = 2 /\ Len(recorded[r]) = 2
                  => remotes'[r] = << path, recorded[r][1] >> ]_vars

\* Capacity 2 and three paths recorded for R1 one after the other.
C9_ThirdOfThree ==
    /\ maxReplyPaths = 2
    /\ lastRecord = [remote |-> "R1", case |-> "evict"]
    /\ Len(recorded["R1"]) = 3
    /\ FingerprintsOf(remotes["R1"]) = { recorded["R1"][1].Fingerprint,
                                         recorded["R1"][2].Fingerprint }

\* The list without the entry of path's fingerprint.
Without(mru, path) ==
    LET Other(q) == q.Fingerprint # path.Fingerprint
    IN  SelectSeq(mru, Other)

\* C10: recording a path whose fingerprint is in the remote's list puts the
\* given path first in place of the entry with that fingerprint; the length
\* stays, nothing else leaves, and the other entries keep their order.
C10_PromotesPresent ==
    [][ lastRecord'.case = "promote" =>
           LET r == lastRecord'.remote
               path == recorded'[r][1]
           IN  /\ Record(r, path)
               /\ path.Fingerprint \in FingerprintsOf(remotes[r])
               /\ remotes'[r] = << path >> \o Without(remotes[r], path)
               /\ Len(remotes'[r]) = Len(remotes[r]) ]_vars

\* A fingerprint of a list of three was recorded again, with another Path.
C10_PromotedFromLast ==
    /\ lastRecord = [remote |-> "R1", case |-> "promote"]
    /\ Len(remotes["R1"]) = 3
    /\ remotes["R1"][1] = recorded["R1"][1]
    /\ remotes["R1"][1].id = 1
    /\ remotes["R1"][2].id = 0
    /\ remotes["R1"][3].id = 0

\* C11: DefaultReplySelector.Path(r) is the path of the most recent Record(r, p)
\* with a path p, for exactly this remote r, and no path if there was none.
\* (The history recorded[r] changes with such a Record only: Records for other
\* remotes, Records without a path and PathDown leave it, hence Path(r), alone.)
C11_PathIsLastRecorded ==
    \A r \in Remotes :
       DefaultReplySelector_Path(r) = IF recorded[r] = << >> THEN Nil ELSE recorded[r][1]

\* Both remotes have recorded paths, R1 a second one after its first, and the
\* last call was a PathDown.
C11_TwoRemotesThenPathDown ==
    /\ Len(recorded["R1"]) > 1
    /\ Len(recorded["R2"]) > 0
    /\ recorded["R1"][1] # recorded["R2"][1]
    /\ lastRecord.case = "PathDown"

\* C12: each probing round started by a tick with k = min(numActive,
\* len(paths)) > 0 sends exactly k probes, one to each of the first k
\* candidates (the rest of the tick handler ends without a fault and awaits
\* the fingerprints of paths[:k]), and every fingerprint that leaves the
\* awaiting set while the loop runs has received exactly one sample in that
\* step: the round-trip time of its reply, or Timeout together with every
\* other fingerprint still awaited; the samples of the others are untouched.
C12_RoundProbesAndSamples ==
    [][ /\ (loopPc = "send" /\ (loopPc' # "send" \/ fault' # fault))
           => /\ fault' = "none"
              /\ tickK <= Len(paths)
              /\ replyPending' = replyPending \cup FingerprintsOf(SubSeq(paths, 1, tickK))
        /\ (loopPc = "select" /\ loopPc' = "select" /\ replyPending' # replyPending)
           => LET left == replyPending \ replyPending'
              IN /\ replyPending' \subseteq replyPending
                 /\ \/ /\ Cardinality(left) = 1
                       /\ \A fp \in left : latency'[fp] \in RTTs
                    \/ /\ replyPending' = {}
                       /\ \A fp \in left : latency'[fp] = Timeout
                 /\ \A fp \in PingFingerprints \ left : latency'[fp] = latency[fp]
      ]_vars

\* C13: rounds never overlap: the tick handler does not start a new round
\* (numActive > 0, so that it goes on to the slice, sequenceNo++ and sendPings)
\* while fingerprints of the preceding round are still awaited. Timeout is
\* documented as less than Interval, so only the ticks taken when the timer of
\* the preceding round is no longer running are constrained.
C13_NoRoundStartsWhileAwaiting ==
    [][ (loopPc = "select" /\ loopPc' = "send" /\ pingTimeout # "armed")
           => replyPending = {} ]_vars

\* C14: a round is closed by its last reply or by its timeout, never by both.
\* A timeout event handled when the round is already closed (the last reply
\* closed it and the event was queued) records no sample and reselects
\* nothing; a reply handled when the round is already closed (the timeout
\* closed it) records no sample; and a step closes a round only when
\* fingerprints are awaited, leaving none awaited and the timer not running.
C14_ClosedRoundStaysClosed ==
    [][ /\ last'.op = "timeout"
           => /\ replyPending = {}
              /\ UNCHANGED << latency, replyPending, current, paths >>
        /\ (last'.op = "run" /\ last'.tag = "reselected")
           => /\ replyPending = {}
              /\ UNCHANGED << latency, replyPending >>
        /\ (last'.op = "run" /\ last'.tag = "round closed by reply")
           => /\ replyPending # {} /\ replyPending' = {}
              /\ pingTimeout' # "armed"
              /\ \E fp \in replyPending : latency'[fp] \in RTTs
        /\ (last'.op = "run" /\ last'.tag = "round closed by timeout")
           => /\ replyPending # {} /\ replyPending' = {}
              /\ pingTimeout = "fired" /\ pingTimeout' = "off"
              /\ \A fp \in replyPending : latency'[fp] = Timeout
      ]_vars

\* The last reply closed round 1 while the timer's event was queued, the
\* registry changed meanwhile, and the queued event has been handled.
C14_QueuedTimeoutHandled ==
    /\ last.op = "timeout"
    /\ sequenceNo = 1
    /\ Len(paths) = 2
    /\ current # LowestLatency(latency, remote, paths)

\* C15: the loop calls reselectPath only in a step that closes a round, that
\* is a step that starts with fingerprints awaited and ends with none: not
\* after a reply that leaves others awaited, and not for a reply or error
\* reply handled while no round is outstanding.
C15_ReselectsOnlyAtRoundClose ==
    [][ last'.op = "run" => (replyPending # {} /\ replyPending' = {}) ]_vars

\* C16: a message taken from pinger.Replies is recorded, as the round-trip
\* time of its fingerprint, and its fingerprint leaves the awaiting set, when
\* it is a successful reply whose source is the selector's remote, whose
\* sequence number is that of the outstanding round and whose fingerprint is
\* awaited; any other message (error reply, non-IP or foreign source, stale
\* sequence number, no fingerprint, unknown or already answered fingerprint)
\* leaves the latency registry and the awaiting set unchanged.
C16_OnlyAwaitedRepliesRecorded ==
    [][ last'.op = "reply"
        => IF /\ handled'.err = "none"
              /\ handled'.src = remote
              /\ handled'.seq = sequenceNo
              /\ handled'.fp \in replyPending
           THEN /\ latency' = [latency EXCEPT ![handled'.fp] = handled'.rtt]
                /\ replyPending' = replyPending \ {handled'.fp}
           ELSE UNCHANGED << latency, replyPending >>
      ]_vars

\* In round 2 a reply of round 1 from the remote, for a fingerprint that is
\* awaited, has been handled: the fingerprint is still awaited and unsampled.
C16_StaleReplyDropped ==
    /\ last.op = "reply"
    /\ sequenceNo = 2
    /\ handled.err = "none" /\ handled.src = remote /\ handled.seq = 1
    /\ handled.fp \in replyPending
    /\ latency[handled.fp] = 0

\* C17: over any sequence of SetActive calls at most one probing loop is
\* started; a loop is started only while local and remote are in different
\* domains and no pinger exists; and a SetActive call made once the loop was
\* started sets the active count and changes nothing else.
C17_LoopStartedAtMostOnce ==
    [][ /\ loopsStarted' <= 1
        /\ loopsStarted' # loopsStarted => (local # remote /\ pinger = "nil")
        /\ (loopsStarted = 1 /\ last'.op = "other")
           => \A n \in ActiveCounts, newPingerOk \in BOOLEAN :
                 SetActive(n, newPingerOk)
                 => /\ numActive' = n
                    /\ UNCHANGED << selVars, fault, dataplanePath, local, remote, pinger,
                                    ctxDone, loopVars, latency, loopsStarted >>
      ]_vars

\* SetActive started the loop, a round was sent, SetActive(0) followed, and
\* the selector was closed and its loop has returned: one loop was started.
C17_SetActiveAfterStart ==
    /\ loopsStarted = 1
    /\ numActive = 0
    /\ latency # [fp \in PingFingerprints |-> 0]
    /\ loopPc = "exit"

\* C18: Close returns, and after Close the probing loop terminates by
\* returning from run: once the context is cancelled and until the loop has
\* returned, the loop has not ended in a panic (from which it never returns).
C18_ClosedLoopReturns ==
    (ctxDone /\ loopPc # "exit") => fault = "none"

\* Under SpecLive a cancelled loop returns unless it panics.
ClosedLoopReturnsOrPanics ==
    ctxDone ~> (loopPc = "exit" \/ fault # "none")

\* C19: a Write or WriteTo towards a destination in another domain asks the
\* selector; when the selector reports no path it returns the no-path error
\* and hands nothing to the transport, otherwise it sends on the reported
\* path, so that no such packet is sent without a path. Towards a destination
\* in the local domain the selector is not asked and the packet is sent with
\* no path.
C19_NoPathNoSend ==
    [][ wrote' # wrote
        => LET reported == IF wrote'.call = "Write" THEN Path
                           ELSE DefaultReplySelector_Path(wrote'.dst)
           IN IF wrote'.dst = "notUDPAddr"
              THEN ~wrote'.sent /\ ~wrote'.asked
              ELSE IF DomainOf(wrote'.dst) = "local"
              THEN /\ ~wrote'.asked
                   /\ wrote'.sent /\ wrote'.path = Nil /\ wrote'.err = "none"
              ELSE /\ wrote'.asked
                   /\ wrote'.sent => wrote'.path # Nil
                   /\ IF reported = Nil
                      THEN ~wrote'.sent /\ wrote'.err = "errNoPathTo"
                      ELSE wrote'.sent /\ wrote'.path = reported /\ wrote'.err = "none"
      ]_vars

\* A WriteTo towards the second remote, from which nothing has been received,
\* failed with the no-path error while paths to the first remote are held.
C19_NoPathToSecondRemote ==
    /\ wrote.call = "WriteTo"
    /\ wrote.dst = "R2"
    /\ wrote.err = "errNoPathTo" /\ ~wrote.sent
    /\ remotes["R1"] # << >>

\* C20: right after a FabridSelector.Initialize with a non-empty candidate set
\* (it did not fault on paths[0]) in which building the FABRID path or the
\* control-plane session failed, Path() returns a path rather than nil.
C20_DegradedInitializeKeepsPath ==
    (kind = "Fabrid" /\ fault = "none"
       /\ last.op = "Initialize" /\ last.tag = "control plane error")
    => Path # Nil

\* C21: once the control-plane setup of FabridSelector.Initialize has
\* succeeded (the first candidate carries a FABRID dataplane path), every
\* path that Path() returns carries a FABRID dataplane path, also after a
\* failover and after a Refresh.
C21_ReturnedPathIsWrapped ==
    (/\ kind = "Fabrid" /\ fault = "none"
     /\ \E p \in PathObjs : dataplanePath[p] = "FABRID"
     /\ Path # Nil)
    => dataplanePath[Path] = "FABRID"

\* C22: setPolicy(p) subscribes nothing anew and calls the target selector's
\* Refresh exactly once, with the pool's cached path set for the destination
\* filtered by p (the whole set when p is nil); a refresh the pool delivers
\* to the subscriber is passed on as one Refresh with the delivered set
\* filtered by the policy last set.
C22_SetPolicyRefreshesFiltered ==
    [][ /\ (calls'.op = "SetPolicy" /\ connRemote = "remote") =>
              /\ subscriptions' = subscriptions
              /\ policy' = calls'.policy
              /\ calls'.log = << Call("pool.cachedPaths", cached),
                                 Call("Refresh", filtered(calls'.policy, cached)) >>
              /\ paths' = filtered(calls'.policy, cached)
        /\ (calls'.op = "refresh" /\ subscriptions > 0) =>
              /\ calls'.log = << Call("Refresh", filtered(policy, calls'.paths)) >>
              /\ paths' = filtered(policy, calls'.paths) ]_vars

\* A refresh of two paths arrives after SetPolicy admitted only the second.
C22_RefreshAfterSetPolicy ==
    /\ calls.op = "refresh"
    /\ calls.policyFrom = "SetPolicy"
    /\ subscriptions = 1
    /\ policy = [nil |-> FALSE, allow |-> {2}]
    /\ Len(calls.paths) = 2
    /\ FingerprintsOf(paths) = {2}

\* C23: an open dialed connection has one subscriber in the pool when its
\* destination is in another domain and none otherwise; Close on a
\* connection with a subscriber unsubscribes it from the pool, then closes
\* the selector, once, then the socket, and leaves no subscriber behind.
C23_OneSubscriberUntilClose ==
    /\ conn = "open" => subscriptions = (IF connRemote = "remote" THEN 1 ELSE 0)
    /\ (calls.op = "Close" /\ connRemote = "remote") =>
          /\ subscriptions = 0
          /\ calls.log = << Call("pool.unsubscribe", <<>>), Call("selector.Close", <<>>),
                            Call("baseUDPConn.Close", <<>>) >>
    /\ (calls.op = "Close" /\ connRemote = "local") =>
          \A i \in 1..Len(calls.log) : calls.log[i].call # "pool.unsubscribe"

\* A connection to another domain that held paths has been closed.
C23_RemoteConnClosed ==
    /\ calls.op = "Close"
    /\ connRemote = "remote"
    /\ conn = "closed"
    /\ kind = "Pinging"
    /\ Len(paths) = 2
    /\ subscriptions = 0

\* C24: the probing loop reads the path list under the selector's mutex: the
\* count a tick computed is never larger than the list it then slices, and
\* the slice expression never faults.
C24_TickTakesHeldCandidates ==
    /\ loopPc = "send" => tickK <= Len(paths)
    /\ fault # "run: slice bounds out of range"

\* C25: once Close has cancelled the loop's context, the only thing run does
\* at its select is return: it starts no tick, takes no reply and handles no
\* timeout event.
C25_ClosedLoopOnlyReturns ==
    [][ (ctxDone /\ loopPc = "select" /\ loopVars' # loopVars) => loopPc' = "exit" ]_vars

\* C26: for the PingingSelector, a PathDown(pf, pi) with pf the fingerprint of
\* no held path and pi an interface of no held path leaves Path() as it was,
\* also when the latency registry has changed since the last reselection.
C26_UnrelatedPathDownKeepsPath ==
    [][ (kind = "Pinging" /\ last'.op = "PathDown") =>
           \A pf \in Fingerprints, pi \in DownInterfaces :
              (/\ pf \notin FingerprintsOf(paths)
               /\ \A i \in 1..Len(paths) : ~isInterfaceOnPath(paths[i], pi)
               /\ PathDown(pf, pi, {}))
              => Path' = Path ]_vars

\* C27: a probe reply that carries an error records no latency sample and
\* leaves the awaited fingerprints as they are; an internal-connectivity-down
\* error is passed to NotifyPathDown with the fingerprint of the reply's path
\* and the reported domain and egress interface, an external-interface-down
\* error with the reported domain and interface, any other error is dropped;
\* and the timeout that closes the round records the timeout value for every
\* fingerprint still awaited.
C27_ErrorReplyOnlyNotifies ==
    [][ /\ (last'.op = "reply" /\ handled'.err # "none") =>
              /\ UNCHANGED << latency, replyPending >>
              /\ notified' =
                    IF handled'.fp = 0 \/ handled'.err = "other" THEN NoNotify
                    ELSE [pf |-> handled'.fp,
                          pi |-> [IA |-> handled'.IA,
                                  IfID |-> IF handled'.err = "InternalConnectivityDown"
                                           THEN handled'.Egress
                                           ELSE handled'.Interface]]
        /\ (last'.op = "run" /\ last'.tag = "round closed by timeout") =>
              \A fp \in replyPending : latency'[fp] = Timeout ]_vars

\* An internal-connectivity error arrived for a path whose probe is awaited.
C27_ErrorForAwaitedPath ==
    /\ last.op = "reply"
    /\ handled.err = "InternalConnectivityDown"
    /\ handled.fp \in replyPending
    /\ notified = [pf |-> handled.fp, pi |-> [IA |-> "transit", IfID |-> 2]]
    /\ latency[handled.fp] = 0

\* C28: for a first candidate with interfaces i_0 .. i_{n-1}, n even and at
\* least 2, Initialize derives n/2 + 1 hop records in path order: the first
\* with the domain of i_0 and egress i_0 only, one per pair (i_{2j-1}, i_{2j})
\* with the domain and ingress of i_{2j-1} and egress i_{2j}, the last with the
\* domain of i_{n-1} and ingress i_{n-1} only; every position of the list goes
\* into exactly one record.
C28_HopRecordsFollowInterfaces ==
    LET n == Len(ifaces)
    IN  hops # <<>> =>
           /\ Len(hops) = n \div 2 + 1
           /\ hops[1].IA = ifaces[1].IA /\ hops[1].Ingress = 0
           /\ hops[1].Egress = ifaces[1].IfID
           /\ \A j \in 1..(n \div 2 - 1) :
                 /\ hops[j + 1].IA = ifaces[2 * j].IA
                 /\ hops[j + 1].Ingress = ifaces[2 * j].IfID
                 /\ hops[j + 1].Egress = ifaces[2 * j + 1].IfID
           /\ hops[Len(hops)].IA = ifaces[n].IA
           /\ hops[Len(hops)].Ingress = ifaces[n].IfID
           /\ hops[Len(hops)].Egress = 0
           /\ \A k \in 0..(n - 1) :
                 Cardinality({ h \in 1..Len(hops) : k \in hops[h].read }) = 1

\* Hop records were derived for a path of three links whose interior
\* interfaces lie in alternating domains.
C28_ThreeLinks ==
    /\ Len(ifaces) = 6
    /\ Len(hops) = 4
    /\ ifaces[2].IA # ifaces[3].IA
    /\ ifaces[4].IA # ifaces[5].IA
    /\ ifaces[2].IfID # ifaces[3].IfID

\* C29: no selector operation changes a Path object it was handed: the
\* dataplane path of every Path object is after each step what it was before.
C29_PathObjectsUntouched ==
    [][ dataplanePath' = dataplanePath ]_vars

\* C30: on a listening connection a read that returns a packet of R whose
\* path reverses to P has recorded P for R when it returns, and a WriteTo(R)
\* that follows, with no other packet of R read in between, sends via P; a
\* read that fails at the transport changes nothing in the reply cache.
C30_ReceiveRecordsReplyPath ==
    [][ /\ (received'.outcome = "ok" /\ received' # received) =>
              /\ received'.path # Nil
              /\ remotes'[received'.remote][1] = received'.path
              /\ recorded'[received'.remote][1] = received'.path
        /\ (wrote'.call = "WriteTo" /\ wrote'.dst \in Remotes /\ recorded'[wrote'.dst] # << >>) =>
              /\ wrote'.sent
              /\ wrote'.path = recorded'[wrote'.dst][1]
        /\ (received'.outcome = "transport error" /\ received' # received) =>
              UNCHANGED << remotes, recorded >> ]_vars

\* R1 was written to over the path of its last packet, read after a packet
\* of R1 on another path with the same fingerprint and a packet of R2.
C30_RepliedOverLastReadPath ==
    /\ received.outcome = "ok"
    /\ received.remote = "R2"
    /\ wrote.call = "WriteTo" /\ wrote.dst = "R1" /\ wrote.sent
    /\ Len(recorded["R1"]) = 2
    /\ wrote.path = recorded["R1"][1]
    /\ wrote.path.id = 1

\* C32: whichever selector the connection uses, a dial whose policy admits
\* none of the pool's paths initializes the selector with the empty set
\* without a fault, and Path() then reports no path.
C32_EmptyInitializeYieldsNoPath ==
    (/\ calls.op = "DialUDP"
     /\ connRemote = "remote"
     /\ conn # "failed"
     /\ filtered(calls.policy, calls.paths) = << >>)
    => (fault = "none" /\ Path = Nil)

\* C34: for a PingingSelector towards another domain whose pinger can be
\* created, once Initialize and a SetActive(n) with n > 0 have both
\* completed, in either order, the probing loop has been started.
C34_ActiveSelectorProbes ==
    (/\ kind = "Pinging" /\ fault = "none"
     /\ initialized /\ remote = "remote"
     /\ numActive > 0)
    => loopPc # "none"

\* C31: the target selector receives no Refresh and no PathDown before its
\* Initialize, and when the dial has returned the selector holds the pool's
\* latest path set filtered by the policy: Initialize has not replaced the
\* set of a refresh the pool delivered after the subscription.
C31_InitializeComesFirst ==
    /\ (calls.op \in {"refresh", "PathDown"} /\ calls.log # << >>) => initialized
    /\ (calls.op = "DialUDP" /\ conn = "open" /\ poolOp = NoOp /\ fault = "none"
        /\ (kind = "Fabrid" => paths # << >>))
       => paths = filtered(policy, cached)

\* C33: when no setPolicy call and no refresh is under way, the selector of
\* a connection whose policy was set with SetPolicy holds the pool's latest
\* path set filtered by that policy.
C33_SettledSetIsFilteredLatest ==
    (/\ conn = "open" /\ fault = "none"
     /\ calls.policyFrom = "SetPolicy"
     /\ callerOp = NoOp /\ poolOp = NoOp)
    => paths = filtered(policy, cached)

====
